---- MODULE Spec2Model ----
(***************************************************************************)
(* Task scheduler, collaboration handoff and knowledge versioning of the   *)
(* Agent Expert System (src/App.tsx, src/services/geminiService.ts,        *)
(* src/components/ExpertiseModal.tsx, src/components/ExpertCard.tsx).      *)
(*                                                                         *)
(* The state is the React state of the App component plus the closure of   *)
(* the one processQueue call that may be suspended at an await.  Every     *)
(* action is one synchronous segment of a handler: all the setState        *)
(* updaters the segment queues are applied in order, and the interval's    *)
(* next tick sees the committed result.                                    *)
(***************************************************************************)
EXTENDS Integers, Sequences, FiniteSets, TLC

VARIABLES experts, tasks, isQueueProcessing, chattingExpert, chatMessages,
          run, now, nextId, diffCall, warRoom

vars == <<experts, tasks, isQueueProcessing, chattingExpert, chatMessages,
          run, now, nextId, diffCall, warRoom>>

\* ------------------------------------------------------------------ bounds
MaxTasks == 2
MaxReverts == 1

\* --------------------------------------------------------------- constants
\* enum TaskPriority
LOW == 0
MEDIUM == 1
HIGH == 2
CRITICAL == 3

\* enum ExpertStatus
IDLE == "idle"
ACTIVE == "active"
THINKING == "thinking"
QUEUED == "queued"
COLLABORATING == "collaborating"

\* enum TaskStatus
PENDING == "pending"
PROCESSING == "processing"
FAILED == "failed"

\* the value of an optional field that is not set, one per field type
UndefinedName == <<"undefined">>
UndefinedTopic == "undefined"
NoExpert == "none"

\* ------------------------------------------------------------------ strings
\* A string is a sequence of characters; toLowerCase maps each character.
Chars == {"A", "a", "D", "d", "E", "e", "b", "p", "i", "x", "t", "s", "r",
          " "}

LowerChar(c) == CASE c = "A" -> "a"
                  [] c = "D" -> "d"
                  [] c = "E" -> "e"
                  [] OTHER -> c

toLowerCase(s) == [k \in 1..Len(s) |-> LowerChar(s[k])]

\* String.prototype.includes: t occurs in s as a contiguous substring
includes(s, t) ==
  \E k \in 0..(Len(s) - Len(t)) : SubSeq(s, k + 1, k + Len(t)) = t

\* --------------------------------------------------------------- registry
\* Two experts of INITIAL_EXPERTS, names shortened to a few characters:
\* an ACTIVE one at version 3 and an IDLE one at version 1, both with an
\* empty history.
INITIAL_EXPERTS ==
  << [id |-> "e1", name |-> <<"D", "b">>, status |-> ACTIVE, learnings |-> 0,
      lastUpdated |-> 0, expertise |-> <<"db">>, version |-> 3,
      history |-> <<>>, collaboratingWith |-> UndefinedName,
      collaborationTopic |-> UndefinedTopic],
     [id |-> "e2", name |-> <<"A", "p", "i">>, status |-> IDLE, learnings |-> 0,
      lastUpdated |-> 0, expertise |-> <<"api">>, version |-> 1,
      history |-> <<>>, collaboratingWith |-> UndefinedName,
      collaborationTopic |-> UndefinedTopic] >>

ExpertIds == {INITIAL_EXPERTS[k].id : k \in 1..Len(INITIAL_EXPERTS)}

\* the expertId arguments handleQueueTraining is called with: the ids of the
\* registry and one id no expert has
UnknownId == "e9"
SubmitIds == ExpertIds \cup {UnknownId}

\* what the model may answer as the expertName of a consult_expert call
Hints == { <<"a", "p", "i">>, <<"D">>, <<"D", "b", "x">> }
Reasons == {"why"}

\* ------------------------------------------------------------ array helpers
\* Array.prototype.map over a sequence
Map(s, F(_)) == [k \in 1..Len(s) |-> F(s[k])]

\* Array.prototype.filter
Filter(s, P(_)) == SelectSeq(s, P)

\* Array.prototype.find: <<>> when nothing matches, else <<first match>>
Find(s, P(_)) ==
  LET f == Filter(s, P) IN IF f = <<>> THEN <<>> ELSE <<Head(f)>>

Some(s, P(_)) == \E k \in 1..Len(s) : P(s[k])

CompareTasks_Fifo(a, b) == a.timestamp - b.timestamp

CompareTasks_Ascending(a, b) ==
  IF b.priority # a.priority THEN a.priority - b.priority
  ELSE a.timestamp - b.timestamp

\* the comparator of the sort in processQueue
CompareTasks(a, b) ==
  IF b.priority # a.priority THEN b.priority - a.priority
  ELSE a.timestamp - b.timestamp

\* Array.prototype.sort (stable): insertion of x behind every element that
\* does not compare greater than x
RECURSIVE InsertSorted(_, _)
InsertSorted(s, x) ==
  IF s = <<>> THEN <<x>>
  ELSE IF CompareTasks(Head(s), x) > 0 THEN <<x>> \o s
       ELSE <<Head(s)>> \o InsertSorted(Tail(s), x)

RECURSIVE SortTasks(_)
SortTasks(s) ==
  IF s = <<>> THEN <<>>
  ELSE InsertSorted(SortTasks(SubSeq(s, 1, Len(s) - 1)), s[Len(s)])

IsPending_OrFailed(t) == t.status \in {PENDING, FAILED}

\* the filter of processQueue: the tasks a tick may dispatch
IsPending(t) == t.status = PENDING

\* ---------------------------------------------------------------- clock
\* new Date() of a knowledge update: later than that of the update before
Later == now + 1

\* --------------------------------------------------------------------- Init
\* ------------------------------------------------------------ modal state
\* computeDiff is not being evaluated: no frame of it exists
NoDiffCall ==
  [pc |-> "idle", oldText |-> <<>>, newText |-> <<>>, oldLines |-> <<>>,
   newLines |-> <<>>, diff |-> <<>>, i |-> 0, j |-> 0]

\* the experts prop App passes to WarRoomModal
WarRoomExperts(registry) == Filter(registry, LAMBDA e : e.status # IDLE)

\* WarRoomModal after mount: the useState initial values, the ref, and the
\* effect that makes every expert of the prop active
WarRoomMounted(registry) ==
  [topic |-> <<>>, isDebating |-> FALSE, isConsensusReached |-> FALSE,
   messages |-> <<>>, turnCount |-> 0,
   activeExpertIds |-> {WarRoomExperts(registry)[k].id :
                          k \in 1..Len(WarRoomExperts(registry))},
   isForcingConsensus |-> FALSE, isFetching |-> FALSE,
   timeout |-> <<>>, requests |-> <<>>]

Init ==
  /\ experts = INITIAL_EXPERTS
  /\ tasks = <<>>
  /\ isQueueProcessing = FALSE
  /\ chattingExpert = NoExpert
  /\ chatMessages = <<>>
  /\ run = <<>>
  /\ now = 0
  /\ nextId = 1
  /\ diffCall = NoDiffCall
  /\ warRoom = WarRoomMounted(INITIAL_EXPERTS)

\* The handoff callback has run and chatWithExpert has not yet reached its
\* next await: no event handler and no timer can run in between.
InCallback == run # <<>> /\ run[1].pc = "handoff"

\* --------------------------------------------------------------- submission
\* addTask: the new task is appended with status PENDING.  Date.now() is
\* later at every submission, as the identifiers are.
addTask(ts, type, priority, expertId) ==
  Append(ts, [id |-> nextId, expertId |-> expertId, type |-> type,
              priority |-> priority, status |-> PENDING,
              timestamp |-> nextId])

SetQueued(es, id) ==
  Map(es, LAMBDA e : IF e.id = id THEN [e EXCEPT !.status = QUEUED] ELSE e)

\* ExpertCard's Chat button: handleChat(expert)
HandleChat(id) ==
  /\ ~InCallback
  /\ chattingExpert' = id
  /\ chatMessages' = <<>>
  /\ UNCHANGED <<diffCall, warRoom, experts, tasks, isQueueProcessing, run, now,
                 nextId>>

\* ChatModal's onClose
CloseChat ==
  /\ ~InCallback
  /\ chattingExpert # NoExpert
  /\ chattingExpert' = NoExpert
  /\ UNCHANGED <<diffCall, warRoom, experts, tasks, isQueueProcessing, chatMessages,
                 run, now, nextId>>

\* the isProcessing prop App passes to ChatModal, which blocks handleSubmit
ChatIsProcessing ==
  /\ isQueueProcessing
  /\ Some(tasks, LAMBDA t : t.expertId = chattingExpert /\ t.priority = CRITICAL)

\* ChatModal.handleSubmit -> handleSendMessage(text)
HandleSendMessage ==
  /\ ~InCallback
  /\ chattingExpert # NoExpert
  /\ ~ChatIsProcessing
  /\ nextId <= MaxTasks
  /\ chatMessages' = Append(chatMessages,
                            [role |-> "user", expertId |-> chattingExpert])
  /\ experts' = SetQueued(experts, chattingExpert)
  /\ tasks' = addTask(tasks, "CHAT", CRITICAL, chattingExpert)
  /\ nextId' = nextId + 1
  /\ UNCHANGED <<diffCall, warRoom, isQueueProcessing, chattingExpert, run, now>>

\* ExpertCard's Improve button (disabled unless idle or active):
\* handleSelfImprove(expert)
HandleSelfImprove(k) ==
  /\ ~InCallback
  /\ experts[k].status \in {IDLE, ACTIVE}
  /\ nextId <= MaxTasks
  /\ experts' = SetQueued(experts, experts[k].id)
  /\ tasks' = addTask(tasks, "IMPROVE", LOW, experts[k].id)
  /\ nextId' = nextId + 1
  /\ UNCHANGED <<diffCall, warRoom, isQueueProcessing, chattingExpert, chatMessages,
                 run, now>>

HandleQueueTraining_Unchecked(id) ==
  /\ ~InCallback
  /\ nextId <= MaxTasks
  /\ experts' = SetQueued(experts, id)
  /\ tasks' = addTask(tasks, "TRAIN", HIGH, id)
  /\ nextId' = nextId + 1
  /\ UNCHANGED <<diffCall, warRoom, isQueueProcessing, chattingExpert, chatMessages,
                 run, now>>

\* handleQueueTraining(expertId, trainingData)
HandleQueueTraining(id) ==
  /\ ~InCallback
  /\ Find(experts, LAMBDA e : e.id = id) # <<>>
  /\ nextId <= MaxTasks
  /\ experts' = SetQueued(experts, id)
  /\ tasks' = addTask(tasks, "TRAIN", HIGH, id)
  /\ nextId' = nextId + 1
  /\ UNCHANGED <<diffCall, warRoom, isQueueProcessing, chattingExpert, chatMessages,
                 run, now>>

\* ----------------------------------------------------------- the task loop
\* what the calls read of an expert of the render processQueue closes over
Rendered(e) == [id |-> e.id, name |-> e.name, expertise |-> e.expertise]

QueueBusyOrEmpty_NoFlag == Len(Filter(tasks, IsPending)) = 0

\* the early return of processQueue
QueueBusyOrEmpty ==
  isQueueProcessing \/ Len(Filter(tasks, IsPending)) = 0

\* processQueue up to its first await: the guard, the selection, the two
\* status updates and the snapshot the closure keeps of the rendered state
ProcessQueue ==
  /\ ~InCallback
  /\ ~QueueBusyOrEmpty
  /\ LET pendingTasks == Filter(tasks, IsPending)
         nextTask == SortTasks(pendingTasks)[1]
         found == Find(experts, LAMBDA e : e.id = nextTask.expertId)
     IN  IF found = <<>>
         THEN \* "Expert not found" is thrown before any await
              /\ tasks' = Map(tasks, LAMBDA t : IF t.id = nextTask.id
                                THEN [t EXCEPT !.status = FAILED] ELSE t)
              /\ experts' = experts
              /\ isQueueProcessing' = FALSE
              /\ run' = <<>>
         ELSE /\ tasks' = Map(tasks, LAMBDA t : IF t.id = nextTask.id
                                THEN [t EXCEPT !.status = PROCESSING] ELSE t)
              /\ experts' = Map(experts, LAMBDA e : IF e.id = nextTask.expertId
                                THEN [e EXCEPT !.status = THINKING] ELSE e)
              /\ isQueueProcessing' = TRUE
              /\ run' = << [task |-> nextTask, expert |-> Rendered(found[1]),
                            experts |-> Map(experts, Rendered),
                            chattingExpert |-> chattingExpert,
                            pc |-> IF nextTask.type = "CHAT" THEN "first"
                                   ELSE "call",
                            hint |-> UndefinedName, reason |-> UndefinedTopic,
                            target |-> <<>>] >>
  /\ UNCHANGED <<diffCall, warRoom, chattingExpert, chatMessages, now, nextId>>

ResetOwner_KeepStatus(es, id, st) ==
  Map(es, LAMBDA e : IF e.id = id
            THEN [e EXCEPT !.collaboratingWith = UndefinedName,
                           !.collaborationTopic = UndefinedTopic]
            ELSE e)

\* the status reset of the success path (line 1257) and of the catch block
\* (line 1262)
ResetOwner(es, id, st) ==
  Map(es, LAMBDA e : IF e.id = id
            THEN [e EXCEPT !.status = st,
                           !.collaboratingWith = UndefinedName,
                           !.collaborationTopic = UndefinedTopic]
            ELSE e)

\* the onCollaborationStart callback processQueue hands to chatWithExpert
handleCollaborationStart(es, expert, partnerName, reason) ==
  Map(es, LAMBDA e :
    IF e.id = expert.id
    THEN [e EXCEPT !.status = COLLABORATING,
                   !.collaboratingWith = partnerName,
                   !.collaborationTopic = reason]
    ELSE IF \/ toLowerCase(e.name) = toLowerCase(partnerName)
            \/ includes(toLowerCase(partnerName), toLowerCase(e.name))
         THEN [e EXCEPT !.status = COLLABORATING,
                        !.collaboratingWith = expert.name,
                        !.collaborationTopic = reason]
         ELSE e)

\* chatWithExpert: the expert whose mental model the second pass consults
FindTargetExpert(expert, availableExperts, expertName) ==
  LET otherExperts == Filter(availableExperts, LAMBDA e : e.id # expert.id)
  IN  Find(otherExperts, LAMBDA e :
        \/ includes(toLowerCase(e.name), toLowerCase(expertName))
        \/ includes(toLowerCase(expertName), toLowerCase(e.name)))

CleanupCollaboration_OwnerOnly(es, expert) ==
  Map(es, LAMBDA e :
    IF e.id = expert.id
    THEN [e EXCEPT !.status = ACTIVE,
                   !.collaboratingWith = UndefinedName,
                   !.collaborationTopic = UndefinedTopic]
    ELSE e)

\* the cleanup processQueue runs when chatWithExpert has returned
CleanupCollaboration(es, expert) ==
  Map(es, LAMBDA e :
    IF e.id = expert.id \/ e.status = COLLABORATING
    THEN [e EXCEPT !.status = ACTIVE,
                   !.collaboratingWith = UndefinedName,
                   !.collaborationTopic = UndefinedTopic]
    ELSE e)

\* the messages the CHAT branch appends when the closure's chattingExpert
\* is the task's expert
ReplyMessages(r, collaboration) ==
  IF r.chattingExpert # NoExpert /\ r.chattingExpert = r.expert.id
  THEN (IF collaboration
        THEN << [role |-> "system", expertId |-> r.expert.id] >>
        ELSE <<>>)
       \o << [role |-> "model", expertId |-> r.expert.id] >>
  ELSE <<>>

ChatReturns_Learns(collaboration) ==
  LET r == run[1] IN
  /\ experts' = Map(ResetOwner(CleanupCollaboration(experts, r.expert),
                               r.task.expertId, ACTIVE),
                    LAMBDA e : IF e.id = r.expert.id
                               THEN [e EXCEPT !.learnings = e.learnings + 1]
                               ELSE e)
  /\ chatMessages' = chatMessages \o ReplyMessages(r, collaboration)
  /\ tasks' = Filter(tasks, LAMBDA t : t.id # r.task.id)
  /\ isQueueProcessing' = FALSE
  /\ run' = <<>>
  /\ UNCHANGED <<diffCall, warRoom, chattingExpert, now, nextId>>

\* processQueue from the return of chatWithExpert to the end of finally
ChatReturns(collaboration) ==
  LET r == run[1] IN
  /\ experts' = ResetOwner(CleanupCollaboration(experts, r.expert),
                           r.task.expertId, ACTIVE)
  /\ chatMessages' = chatMessages \o ReplyMessages(r, collaboration)
  /\ tasks' = Filter(tasks, LAMBDA t : t.id # r.task.id)
  /\ isQueueProcessing' = FALSE
  /\ run' = <<>>
  /\ UNCHANGED <<diffCall, warRoom, chattingExpert, now, nextId>>

\* the first generateContent call fails (chatWithExpert catches the error
\* and returns an error text) or answers without a consult_expert call
ChatFirstAnswer ==
  /\ run # <<>> /\ run[1].pc = "first"
  /\ ChatReturns(FALSE)

\* the first generateContent call answers with consult_expert(expertName,
\* reason): chatWithExpert invokes the callback
ChatConsult(expertName, reason) ==
  /\ run # <<>> /\ run[1].pc = "first"
  /\ Len(Filter(run[1].experts, LAMBDA e : e.id # run[1].expert.id)) > 0
  /\ experts' = handleCollaborationStart(experts, run[1].expert, expertName,
                                         reason)
  /\ run' = << [run[1] EXCEPT !.pc = "handoff", !.hint = expertName,
                              !.reason = reason] >>
  /\ UNCHANGED <<diffCall, warRoom, tasks, isQueueProcessing, chattingExpert, chatMessages,
                 now, nextId>>

\* chatWithExpert looks the target expert up: on a match the second pass is
\* awaited, otherwise chatWithExpert returns the first response's text
ChatLookup ==
  /\ InCallback
  /\ LET r == run[1]
         targetExpert == FindTargetExpert(r.expert, r.experts, r.hint)
     IN  IF targetExpert # <<>>
         THEN /\ run' = << [r EXCEPT !.pc = "second",
                                     !.target = targetExpert] >>
              /\ UNCHANGED <<diffCall, warRoom, experts, tasks, isQueueProcessing, chattingExpert,
                             chatMessages, now, nextId>>
         ELSE ChatReturns(FALSE)

\* the second generateContent call answers: the response carries the
\* collaboration
ChatSecondAnswer ==
  /\ run # <<>> /\ run[1].pc = "second"
  /\ ChatReturns(TRUE)

\* the second generateContent call fails: chatWithExpert catches the error
\* and returns an error text
ChatSecondFails ==
  /\ run # <<>> /\ run[1].pc = "second"
  /\ ChatReturns(FALSE)

\* ------------------------------------------------------- knowledge updates
ApplyUpdate_NoSnapshot(es, id, newExpertise, reason, t) ==
  Map(es, LAMBDA e :
    IF e.id = id
    THEN [e EXCEPT !.expertise = newExpertise,
                   !.learnings = e.learnings + 1,
                   !.version = e.version + 1,
                   !.lastUpdated = t]
    ELSE e)

ApplyUpdate_Prepend(es, id, newExpertise, reason, t) ==
  Map(es, LAMBDA e :
    IF e.id = id
    THEN LET historyEntry == [version |-> e.version, content |-> e.expertise,
                              timestamp |-> e.lastUpdated, reason |-> reason]
         IN  [e EXCEPT !.expertise = newExpertise,
                       !.learnings = e.learnings + 1,
                       !.version = e.version + 1,
                       !.lastUpdated = t,
                       !.history = <<historyEntry>> \o e.history]
    ELSE e)

\* the updater of the IMPROVE and TRAIN branches
ApplyUpdate(es, id, newExpertise, reason, t) ==
  Map(es, LAMBDA e :
    IF e.id = id
    THEN LET historyEntry == [version |-> e.version, content |-> e.expertise,
                              timestamp |-> e.lastUpdated, reason |-> reason]
         IN  [e EXCEPT !.expertise = newExpertise,
                       !.learnings = e.learnings + 1,
                       !.version = e.version + 1,
                       !.lastUpdated = t,
                       !.history = Append(e.history, historyEntry)]
    ELSE e)

\* what the model returns as newExpertise: a revision of the expertise that
\* was in its prompt
NewExpertise(expertise, tag) == Append(expertise, tag)

ImproveReason == [kind |-> "Pre-improvement backup", version |-> 0]
TrainReason == [kind |-> "Pre-training backup", version |-> 0]
RevertReason(v) == [kind |-> "Reverted to v", version |-> v]

\* selfImproveExpert / trainExpert resolve: the branch's update, then the
\* cleanup and finally
UpdateSucceeds(type, tag, reason) ==
  /\ run # <<>> /\ run[1].pc = "call" /\ run[1].task.type = type
  /\ LET r == run[1] IN
     /\ now' = Later
     /\ experts' = ResetOwner(ApplyUpdate(experts, r.expert.id,
                                          NewExpertise(r.expert.expertise, tag),
                                          reason, Later),
                              r.task.expertId, ACTIVE)
     /\ tasks' = Filter(tasks, LAMBDA x : x.id # r.task.id)
  /\ isQueueProcessing' = FALSE
  /\ run' = <<>>
  /\ UNCHANGED <<diffCall, warRoom, chattingExpert, chatMessages, nextId>>

ImproveSucceeds == UpdateSucceeds("IMPROVE", "i", ImproveReason)
TrainSucceeds == UpdateSucceeds("TRAIN", "t", TrainReason)

CallFails_Requeue ==
  /\ run # <<>> /\ run[1].pc = "call"
  /\ tasks' = Map(tasks, LAMBDA t : IF t.id = run[1].task.id
                    THEN [t EXCEPT !.status = PENDING] ELSE t)
  /\ experts' = ResetOwner(experts, run[1].task.expertId, IDLE)
  /\ isQueueProcessing' = FALSE
  /\ run' = <<>>
  /\ UNCHANGED <<diffCall, warRoom, chattingExpert, chatMessages, now, nextId>>

CallFails_NoFinally ==
  /\ run # <<>> /\ run[1].pc = "call"
  /\ tasks' = Map(tasks, LAMBDA t : IF t.id = run[1].task.id
                    THEN [t EXCEPT !.status = FAILED] ELSE t)
  /\ experts' = ResetOwner(experts, run[1].task.expertId, IDLE)
  /\ run' = <<>>
  /\ UNCHANGED <<diffCall, warRoom, isQueueProcessing, chattingExpert, chatMessages, now, nextId>>

\* selfImproveExpert / trainExpert reject: the catch block and finally
CallFails ==
  /\ run # <<>> /\ run[1].pc = "call"
  /\ tasks' = Map(tasks, LAMBDA t : IF t.id = run[1].task.id
                    THEN [t EXCEPT !.status = FAILED] ELSE t)
  /\ experts' = ResetOwner(experts, run[1].task.expertId, IDLE)
  /\ isQueueProcessing' = FALSE
  /\ run' = <<>>
  /\ UNCHANGED <<diffCall, warRoom, chattingExpert, chatMessages, now, nextId>>

\* ------------------------------------------------------------------ revert
ApplyRevert_Destructive(es, expertId, historyItem, t) ==
  Map(es, LAMBDA e :
    IF e.id = expertId
    THEN [e EXCEPT !.expertise = historyItem.content,
                   !.version = e.version + 1,
                   !.history = SelectSeq(e.history,
                                 LAMBDA h : h.version < historyItem.version),
                   !.lastUpdated = t]
    ELSE e)

ApplyRevert_SameVersion(es, expertId, historyItem, t) ==
  Map(es, LAMBDA e :
    IF e.id = expertId
    THEN LET backupEntry == [version |-> e.version, content |-> e.expertise,
                             timestamp |-> t,
                             reason |-> RevertReason(historyItem.version)]
         IN  [e EXCEPT !.expertise = historyItem.content,
                       !.history = Append(e.history, backupEntry),
                       !.lastUpdated = t]
    ELSE e)

\* the updater of handleRevert
ApplyRevert(es, expertId, historyItem, t) ==
  Map(es, LAMBDA e :
    IF e.id = expertId
    THEN LET backupEntry == [version |-> e.version, content |-> e.expertise,
                             timestamp |-> t,
                             reason |-> RevertReason(historyItem.version)]
         IN  [e EXCEPT !.expertise = historyItem.content,
                       !.version = e.version + 1,
                       !.history = Append(e.history, backupEntry),
                       !.lastUpdated = t]
    ELSE e)

\* the list of versions ExpertiseModal offers: the current one and the past
fullHistory(expert) ==
  {expert.version} \cup {expert.history[h].version : h \in 1..Len(expert.history)}

\* the backups of reverts in the histories: one per revert done so far
RevertsDone ==
  {<<k, h>> \in (1..Len(experts)) \X (1..now) :
     /\ h <= Len(experts[k].history)
     /\ experts[k].history[h].reason.kind = "Reverted to v"}

RevertChoice_AnyListed(expert, selectedVersion) ==
  LET current == [version |-> expert.version, content |-> expert.expertise,
                  timestamp |-> expert.lastUpdated,
                  reason |-> [kind |-> "Current Version", version |-> 0]]
  IN  Find(<<current>> \o expert.history,
           LAMBDA h : h.version = selectedVersion)

\* the history item the Revert button hands to onRevert: none when the
\* button is not rendered (the selected version is the expert's version) or
\* when expert.history.find finds no entry of the selected version
RevertChoice(expert, selectedVersion) ==
  LET isHistorical == selectedVersion # expert.version
      hist == Find(expert.history, LAMBDA h : h.version = selectedVersion)
  IN  IF isHistorical THEN hist ELSE <<>>

\* ExpertiseModal's Revert button on a selected version of the expert it
\* shows: handleRevert(expert.id, hist), which also closes the modal.  The
\* modal shows the expert as it was rendered when the modal was opened; the
\* history of that rendering is a prefix of the expert's history at the
\* click, so the click is taken on the expert as it is at the click.
HandleRevert(k, selectedVersion) ==
  /\ ~InCallback
  /\ Cardinality(RevertsDone) < MaxReverts
  /\ LET expert == experts[k]
         hist == RevertChoice(expert, selectedVersion)
     IN  /\ hist # <<>>
         /\ now' = Later
         /\ experts' = ApplyRevert(experts, expert.id, hist[1], Later)
  /\ UNCHANGED <<diffCall, warRoom, tasks, isQueueProcessing, chattingExpert, chatMessages, run,
                 nextId>>

\* ------------------------------------------------------------ properties
Processing == {k \in 1..Len(tasks) : tasks[k].status = PROCESSING}
Pending == {k \in 1..Len(tasks) : tasks[k].status = PENDING}
ExpertOf(id) == CHOOSE k \in 1..Len(experts) : experts[k].id = id
FieldsCleared(e) ==
  e.collaboratingWith = UndefinedName /\ e.collaborationTopic = UndefinedTopic

\* C1: single-flight -- in every reachable state at most one task is
\* PROCESSING, whatever the interleaving of submissions, ticks and call
\* completions.
SingleFlight == Cardinality(Processing) <= 1

\* a call is in flight on an expert while a second task for the same expert
\* is PENDING, so that every further tick has to be skipped
SingleFlightWitness ==
  \E k \in Processing, j \in Pending :
    /\ tasks[k].expertId = tasks[j].expertId
    /\ isQueueProcessing /\ run # <<>>

\* C2: priority dispatch -- the task a tick moves from PENDING to PROCESSING
\* has the highest priority among the tasks PENDING at that moment and,
\* among those of its priority, is the one enqueued earliest.
PriorityDispatch ==
  [][\A k \in Pending :
       (Len(tasks') = Len(tasks) /\ tasks'[k].status = PROCESSING)
       => \A j \in Pending :
            /\ tasks[j].priority <= tasks[k].priority
            /\ tasks[j].priority = tasks[k].priority
               => (k <= j /\ tasks[k].timestamp <= tasks[j].timestamp)]_vars

\* the CRITICAL chat task is PROCESSING while a LOW improve task for another
\* expert, enqueued before it, is still PENDING
PriorityDispatchWitness ==
  \E k \in Processing, j \in Pending :
    /\ j < k
    /\ tasks[k].priority = CRITICAL /\ tasks[k].type = "CHAT"
    /\ tasks[j].priority = LOW /\ tasks[j].type = "IMPROVE"
    /\ tasks[j].expertId # tasks[k].expertId

\* C3: status restoration -- in the step in which a PROCESSING task is
\* removed (completed) its target is active, in the step in which it becomes
\* FAILED its target is idle, and in both the target's collaboration fields
\* are empty.
StatusRestoration ==
  [][\A k \in Processing :
       LET t == tasks[k]
           after == experts'[ExpertOf(t.expertId)]
           gone == \A j \in 1..Len(tasks') : tasks'[j].id # t.id
           failed == \E j \in 1..Len(tasks') :
                       tasks'[j].id = t.id /\ tasks'[j].status = FAILED
       IN  /\ gone => (after.status = ACTIVE /\ FieldsCleared(after))
           /\ failed => (after.status = IDLE /\ FieldsCleared(after))]_vars

\* a task has failed and one has completed: the failed task's expert is idle
\* and the other expert, whose knowledge was updated, is active
StatusRestorationWitness ==
  /\ ~isQueueProcessing
  /\ \E k \in 1..Len(tasks) :
       /\ tasks[k].status = FAILED
       /\ experts[ExpertOf(tasks[k].expertId)].status = IDLE
  /\ \E k \in 1..Len(experts) :
       experts[k].status = ACTIVE /\ experts[k].history # <<>>

\* the step in which chatWithExpert receives consult_expert and runs the
\* callback
ConsultStep ==
  /\ run # <<>> /\ run[1].pc = "first"
  /\ run' # <<>> /\ run'[1].pc = "handoff"

\* the step in which a chat that went through a second pass returns
ChatResolvesAfterHandoff == run # <<>> /\ run[1].pc = "second" /\ run' = <<>>

\* C5: paired exit -- when the outer task of a handoff resolves, the
\* requester and the peer are not collaborating and their collaboration
\* fields are cleared.
PairedExit ==
  [][ChatResolvesAfterHandoff
     => \A k \in 1..Len(experts) :
          experts[k].id \in {run[1].expert.id, run[1].target[1].id}
          => /\ experts'[k].status # COLLABORATING
             /\ FieldsCleared(experts'[k])]_vars

\* C6: paired entry -- when the hint of a requested handoff matches a
\* registered agent, the callback's step leaves both the requester and that
\* peer collaborating, with collaboratingWith and collaborationTopic set.
PairedEntry ==
  [][ConsultStep
     => LET peer == FindTargetExpert(run[1].expert, experts, run'[1].hint)
        IN  peer # <<>>
            => \A k \in 1..Len(experts) :
                 experts[k].id \in {run[1].expert.id, peer[1].id}
                 => /\ experts'[k].status = COLLABORATING
                    /\ experts'[k].collaboratingWith # UndefinedName
                    /\ experts'[k].collaborationTopic # UndefinedTopic]_vars

\* C7: a handoff whose hint matches no registered agent changes no agent's
\* status or collaboration fields.
UnmatchedHandoffIsNoOp ==
  [][(ConsultStep
      /\ FindTargetExpert(run[1].expert, experts, run'[1].hint) = <<>>)
     => experts' = experts]_vars

\* C8: an agent whose status is not collaborating has empty collaboration
\* fields.
CollaborationFieldsNull ==
  \A k \in 1..Len(experts) :
    experts[k].status # COLLABORATING => FieldsCleared(experts[k])

\* a knowledge update of expert k: a completed IMPROVE or TRAIN task on it,
\* or a revert of it
KnowledgeChanged(k) ==
  \/ experts'[k].expertise # experts[k].expertise
  \/ experts'[k].version # experts[k].version
  \/ experts'[k].history # experts[k].history

UpdateCompletes(k) ==
  \E j \in Processing :
    /\ tasks[j].expertId = experts[k].id
    /\ tasks[j].type \in {"IMPROVE", "TRAIN"}
    /\ \A i \in 1..Len(tasks') : tasks'[i].id # tasks[j].id

Reverted(k) ==
  /\ experts'[k] # experts[k]
  /\ \E v \in fullHistory(experts[k]) : HandleRevert(k, v)

\* C9: every knowledge update -- a completed IMPROVE, a completed TRAIN or
\* a revert -- raises the version by exactly 1 and lengthens the history by
\* exactly 1.
VersionBump ==
  [][\A k \in 1..Len(experts) :
       (KnowledgeChanged(k) \/ UpdateCompletes(k) \/ Reverted(k))
       => /\ experts'[k].version = experts[k].version + 1
          /\ Len(experts'[k].history) = Len(experts[k].history) + 1]_vars

\* an expert was reverted while a task on it, dispatched before the revert,
\* is in flight
VersionBumpWitness ==
  \E k \in 1..Len(experts) :
    /\ run # <<>> /\ run[1].expert.id = experts[k].id
    /\ run[1].expert.expertise # experts[k].expertise
    /\ experts[k].version = INITIAL_EXPERTS[k].version + Len(experts[k].history)
    /\ \E h \in 1..Len(experts[k].history) :
         experts[k].history[h].reason.kind = "Reverted to v"

\* C10: no entry of an agent's history carries the agent's current version.
HistoryExcludesCurrent ==
  \A k \in 1..Len(experts) :
    \A h \in 1..Len(experts[k].history) :
      experts[k].history[h].version # experts[k].version

\* a history that holds both a pre-improvement backup and the backup of a
\* revert
HistoryExcludesCurrentWitness ==
  \E k \in 1..Len(experts) :
    /\ \E h \in 1..Len(experts[k].history) :
         experts[k].history[h].reason.kind = "Reverted to v"
    /\ \E h \in 1..Len(experts[k].history) :
         experts[k].history[h].reason.kind = "Pre-improvement backup"

\* C11: every knowledge update -- IMPROVE, TRAIN or revert -- appends to the
\* history exactly the prior current artifact: the version, the content and
\* the timestamp the agent had before the update.
PriorArtifactArchived ==
  [][\A k \in 1..Len(experts) :
       KnowledgeChanged(k)
       => LET before == experts[k]
              after == experts'[k]
          IN  /\ Len(after.history) = Len(before.history) + 1
              /\ SubSeq(after.history, 1, Len(before.history)) = before.history
              /\ after.history[Len(after.history)].version = before.version
              /\ after.history[Len(after.history)].content = before.expertise
              /\ after.history[Len(after.history)].timestamp
                   = before.lastUpdated]_vars

\* C12: revert is additive -- a revert of an agent at version n to a version
\* v of its history gives version n + 1 with the content of v, keeps every
\* entry of the history as it was and adds the former current version n
\* with its content.
RevertIsAdditive ==
  [][\A k \in 1..Len(experts) :
       \A v \in fullHistory(experts[k]) :
         (experts'[k] # experts[k] /\ HandleRevert(k, v))
         => LET before == experts[k]
                after == experts'[k]
            IN  /\ after.version = before.version + 1
                /\ \E h \in 1..Len(before.history) :
                     /\ before.history[h].version = v
                     /\ after.expertise = before.history[h].content
                /\ \A h \in 1..Len(before.history) :
                     /\ h <= Len(after.history)
                     /\ after.history[h] = before.history[h]
                /\ \E h \in 1..Len(after.history) :
                     /\ after.history[h].version = before.version
                     /\ after.history[h].content = before.expertise]_vars

\* an agent improved twice was reverted to the older of its two past
\* versions: the restored content differs from the content it replaced, and
\* both past versions and the replaced one are in the history
RevertIsAdditiveWitness ==
  \E k \in 1..Len(experts) :
    LET e == experts[k] IN
    /\ Len(e.history) = 3
    /\ e.history[3].reason = RevertReason(e.history[1].version)
    /\ e.expertise = e.history[1].content
    /\ e.expertise # e.history[3].content
    /\ e.history[2].content # e.history[1].content
    /\ e.version = e.history[3].version + 1

HistoryVersions(e) == {e.history[h].version : h \in 1..Len(e.history)}

\* C13: a revert to a version that is not in the agent's history, the
\* agent's current version included, is rejected -- no step is such a
\* revert, and every step that appends the backup of a revert to v finds v
\* in the history and different from the current version.
RevertRejected ==
  [][\A k \in 1..Len(experts) :
       /\ \A v \in fullHistory(experts[k]) :
            (/\ v = experts[k].version \/ v \notin HistoryVersions(experts[k])
             /\ experts'[k] # experts[k])
            => ~HandleRevert(k, v)
       /\ (/\ Len(experts'[k].history) > Len(experts[k].history)
           /\ experts'[k].history[Len(experts'[k].history)].reason.kind
                = "Reverted to v")
          => LET v == experts'[k].history[Len(experts'[k].history)]
                        .reason.version
             IN  /\ v \in HistoryVersions(experts[k])
                 /\ v # experts[k].version]_vars

\* the modal of an agent with a history: the Revert button acts on a past
\* version, and the same click with the current version selected is
\* refused
RevertRejectedWitness ==
  \E k \in 1..Len(experts) :
    /\ experts[k].history # <<>>
    /\ experts[k].version \notin HistoryVersions(experts[k])
    /\ \E v \in HistoryVersions(experts[k]) : ENABLED HandleRevert(k, v)
    /\ ~ENABLED HandleRevert(k, experts[k].version)

RegistryIds == {experts[k].id : k \in 1..Len(experts)}

FailedIsFinal ==
  [][\A k \in 1..Len(tasks) :
       tasks[k].status = FAILED
       => /\ \E j \in 1..Len(tasks') : tasks'[j] = tasks[k]
          /\ (run' # <<>> => run'[1].task.id # tasks[k].id)]_vars

\* a task of an expert has failed and stays FAILED while a later task of
\* the same expert is in flight
FailedIsFinalWitness ==
  \E k \in 1..Len(tasks), j \in Processing :
    /\ tasks[k].status = FAILED
    /\ tasks[k].expertId = tasks[j].expertId
    /\ tasks[k].id < tasks[j].id
    /\ run # <<>> /\ run[1].task.id = tasks[j].id

\* the fields of AgentTask the model keeps: those addTask fills, without
\* payload and description, which no step reads back or rewrites
TaskFields == {"id", "expertId", "type", "priority", "status", "timestamp"}

\* C16: a FAILED task carries its failure reason -- the retained task holds
\* something the submitted task did not hold, the error of the call.
FailureReasonRecorded ==
  \A k \in 1..Len(tasks) :
    tasks[k].status = FAILED => DOMAIN tasks[k] # TaskFields

\* ignoring case, the hint contains the name or the name contains the hint
NameMatches(name, hint) ==
  \/ includes(toLowerCase(hint), toLowerCase(name))
  \/ includes(toLowerCase(name), toLowerCase(hint))

\* C18: peer resolution is case-insensitive substring matching in both
\* directions -- the agents other than the requester that the handoff makes
\* its peer are exactly those whose name contains the hint or is contained
\* in it, and the lookup goes on to the second pass exactly when there is
\* one, with such an agent as its target.
PeerResolution ==
  [][/\ ConsultStep
        => \A k \in 1..Len(experts) :
             experts[k].id # run[1].expert.id
             => (NameMatches(experts[k].name, run'[1].hint)
                 <=> /\ experts'[k].status = COLLABORATING
                     /\ experts'[k].collaboratingWith = run[1].expert.name)
     /\ (InCallback /\ run' # run)
        => LET matching == {k \in 1..Len(experts) :
                             /\ experts[k].id # run[1].expert.id
                             /\ NameMatches(experts[k].name, run[1].hint)}
           IN  IF matching = {}
               THEN run' = <<>>
               ELSE /\ run' # <<>> /\ run'[1].pc = "second"
                    /\ \E k \in matching :
                         run'[1].target[1].id = experts[k].id]_vars

\* the statuses task t has after the step, none when it has left the queue
StatusAfter(t) ==
  {tasks'[j].status : j \in {i \in 1..Len(tasks') : tasks'[i].id = t.id}}

\* C21: task lifecycle -- a PENDING task stays in the queue and is PENDING
\* or PROCESSING after every step; a PROCESSING task stays PROCESSING, and
\* the one in flight, until the step in which its own call returns, which
\* removes it or makes it FAILED; a FAILED task stays FAILED.
TaskLifecycle ==
  [][\A k \in 1..Len(tasks) :
       LET t == tasks[k] IN
       /\ t.status = PENDING
          => StatusAfter(t) # {} /\ StatusAfter(t) \subseteq {PENDING, PROCESSING}
       /\ t.status = PROCESSING
          => /\ StatusAfter(t) \subseteq {PROCESSING, FAILED}
             /\ StatusAfter(t) # {PROCESSING}
                => (run # <<>> /\ run[1].task.id = t.id /\ run' = <<>>)
             /\ StatusAfter(t) = {PROCESSING}
                => (run' # <<>> /\ run'[1].task.id = t.id)
       /\ t.status = FAILED => StatusAfter(t) = {FAILED}]_vars

\* a LOW task is in flight while a CRITICAL task, submitted after the
\* dispatch, waits behind it
TaskLifecycleWitness ==
  \E j \in Processing, k \in Pending :
    /\ j < k
    /\ tasks[j].priority = LOW /\ tasks[k].priority = CRITICAL
    /\ run # <<>> /\ run[1].task.id = tasks[j].id

\* C22: status follows in-flight work -- while a task is PROCESSING its
\* target agent is thinking or collaborating.
StatusFollowsWork ==
  \A k \in Processing :
    experts[ExpertOf(tasks[k].expertId)].status \in {THINKING, COLLABORATING}

\* C23: an idle agent has no PENDING and no PROCESSING task targeting it.
IdleHasNoWork ==
  \A k \in 1..Len(experts) :
    experts[k].status = IDLE
    => \A j \in 1..Len(tasks) :
         tasks[j].expertId = experts[k].id
         => tasks[j].status \notin {PENDING, PROCESSING}

\* C24: knowledge is changed only by IMPROVE, TRAIN and revert -- a step
\* that changes an agent's version, content, history or learnings counter
\* is the completion of an IMPROVE or TRAIN task of that agent or a revert
\* of it; the return of a chat, with or without a handoff, and the failure
\* of a task change none of them.
KnowledgeFrame ==
  [][\A k \in 1..Len(experts) :
       (KnowledgeChanged(k) \/ experts'[k].learnings # experts[k].learnings)
       => (UpdateCompletes(k) \/ Reverted(k))]_vars

\* a chat that consulted a peer has returned into the open conversation and
\* an IMPROVE task has failed: every agent's knowledge is as it was at the
\* start
KnowledgeFrameWitness ==
  /\ \E m \in 1..Len(chatMessages) : chatMessages[m].role = "system"
  /\ \E k \in 1..Len(tasks) :
       tasks[k].status = FAILED /\ tasks[k].type = "IMPROVE"
  /\ run = <<>>
  /\ \A k \in 1..Len(experts) :
       /\ experts[k].version = INITIAL_EXPERTS[k].version
       /\ experts[k].expertise = INITIAL_EXPERTS[k].expertise
       /\ experts[k].history = <<>>
       /\ experts[k].learnings = 0

\* C25: history is append-only -- after every step each agent's history
\* has its history before the step as a prefix, and its version numbers
\* are strictly increasing.
HistoryAppendOnly ==
  [][\A k \in 1..Len(experts) :
       LET before == experts[k].history
           after == experts'[k].history
       IN  /\ Len(before) <= Len(after)
           /\ SubSeq(after, 1, Len(before)) = before
           /\ \A i, j \in 1..Len(after) :
                i < j => after[i].version < after[j].version]_vars

\* a history that grew by an improvement, then by a revert, then by a
\* second improvement
HistoryAppendOnlyWitness ==
  \E k \in 1..Len(experts) :
    LET h == experts[k].history IN
    /\ Len(h) = 3
    /\ h[1].reason = ImproveReason
    /\ h[2].reason = RevertReason(h[1].version)
    /\ h[3].reason = ImproveReason

\* the replies a step appends to the shown message list
AppendedReplies ==
  IF /\ Len(chatMessages') > Len(chatMessages)
     /\ SubSeq(chatMessages', 1, Len(chatMessages)) = chatMessages
  THEN {chatMessages'[m] : m \in (Len(chatMessages) + 1)..Len(chatMessages')}
  ELSE {}

\* C26: a chat reply reaches only its own conversation -- a reply of a
\* task of agent A is appended only while the shown list is the
\* conversation with A, and not once the chat was closed or another agent's
\* chat was opened.
ReplyInOwnConversation ==
  [][\A m \in AppendedReplies :
       m.role \in {"model", "system"} => chattingExpert = m.expertId]_vars

\* C27: no lost revert -- when an IMPROVE or TRAIN task of an agent
\* completes after the agent was reverted during the call, the content it
\* installs is a revision of the reverted content, the content current at
\* the completion.
NoLostRevert ==
  [][\A k \in 1..Len(experts) :
       (/\ UpdateCompletes(k)
        /\ run[1].expert.expertise # experts[k].expertise)
       => \E tag \in {"i", "t"} :
            experts'[k].expertise = NewExpertise(experts[k].expertise, tag)]_vars

\* C28: the registry and the chat call agree on the peer -- when the
\* callback of a handoff has run, the agents other than the requester that
\* it has marked collaborating with the requester are exactly the agent the
\* lookup of chatWithExpert finds for the hint, and none when it finds
\* none.
PeerAgreement ==
  InCallback
  => LET r == run[1]
         marked == {experts[k].id : k \in {i \in 1..Len(experts) :
                      /\ experts[i].id # r.expert.id
                      /\ experts[i].status = COLLABORATING
                      /\ experts[i].collaboratingWith = r.expert.name}}
         targetExpert == FindTargetExpert(r.expert, r.experts, r.hint)
     IN  marked = {targetExpert[i].id : i \in 1..Len(targetExpert)}

Next ==
  \/ \E id \in ExpertIds : HandleChat(id)
  \/ CloseChat
  \/ HandleSendMessage
  \/ \E k \in 1..Len(experts) : HandleSelfImprove(k)
  \/ \E id \in SubmitIds : HandleQueueTraining(id)
  \/ ProcessQueue
  \/ ChatFirstAnswer
  \/ \E h \in Hints, why \in Reasons : ChatConsult(h, why)
  \/ ChatLookup
  \/ ChatSecondAnswer
  \/ ChatSecondFails
  \/ ImproveSucceeds
  \/ TrainSucceeds
  \/ CallFails
  \/ \E k \in 1..Len(experts) :
       \E v \in fullHistory(experts[k]) : HandleRevert(k, v)

Spec == Init /\ [][Next]_vars
\* the loop keeps ticking (the interval of processQueue), and every external
\* call that was dispatched resolves or fails
CallReturns ==
  \/ ChatFirstAnswer
  \/ \E h \in Hints, why \in Reasons : ChatConsult(h, why)
  \/ ChatLookup
  \/ ChatSecondAnswer
  \/ ChatSecondFails
  \/ ImproveSucceeds
  \/ TrainSucceeds
  \/ CallFails

\* the steps that touch a status or the queue: the chat modal's submissions,
\* the two other submissions, the loop and the returns of the calls
SchedulerNext ==
  \/ \E id \in ExpertIds : HandleChat(id)
  \/ HandleSendMessage
  \/ \E k \in 1..Len(experts) : HandleSelfImprove(k)
  \/ \E id \in SubmitIds : HandleQueueTraining(id)
  \/ ProcessQueue
  \/ CallReturns

FairSpec ==
  /\ Init /\ [][SchedulerNext]_vars
  /\ WF_vars(ProcessQueue)
  /\ WF_vars(CallReturns)

Transient == {THINKING, QUEUED, COLLABORATING}
Steady == {IDLE, ACTIVE}

PendingTask(id) ==
  \E k \in 1..Len(tasks) : tasks[k].id = id /\ tasks[k].status = PENDING

\* C17: a failure does not wedge the scheduler -- with a ticking loop,
\* calls that resolve or fail and finitely many submissions, every PENDING
\* task is eventually dispatched, whatever failed or completed before it.
EveryPendingDispatched ==
  \A id \in 1..MaxTasks : PendingTask(id) ~> ~PendingTask(id)

\* two tasks of the same priority were submitted; the first has failed and
\* the second, dispatched after the failure, has completed and updated its
\* expert
EveryPendingDispatchedWitness ==
  /\ Len(tasks) = 1 /\ tasks[1].status = FAILED /\ tasks[1].id = 1
  /\ tasks[1].priority = LOW
  /\ nextId = 3
  /\ ~isQueueProcessing
  /\ \E k \in 1..Len(experts) :
       /\ experts[k].id # tasks[1].expertId
       /\ experts[k].history # <<>>
       /\ experts[k].history[1].reason = ImproveReason

\* ------------------------------------------------- handoff by a typed name
DatabaseExpert ==
  <<"D", "a", "t", "a", "b", "a", "s", "e", " ", "E", "x", "p", "e", "r", "t">>
DatbaseExpert ==
  <<"D", "a", "t", "b", "a", "s", "e", " ", "E", "x", "p", "e", "r", "t">>

\* The registry App reads from localStorage ('aes_experts') when an earlier
\* session has saved one: here the expert the user created under the name
\* "Database Expert" (handleCreateNewExpert: idle, version 1, no history)
\* and the second expert of INITIAL_EXPERTS.
SAVED_EXPERTS ==
  << [id |-> "e3", name |-> DatabaseExpert, status |-> IDLE, learnings |-> 0,
      lastUpdated |-> 0, expertise |-> <<"sql">>, version |-> 1,
      history |-> <<>>, collaboratingWith |-> UndefinedName,
      collaborationTopic |-> UndefinedTopic],
     INITIAL_EXPERTS[2] >>

SavedIds == {SAVED_EXPERTS[k].id : k \in 1..Len(SAVED_EXPERTS)}

\* the expertName of consult_expert: the name as the model mistypes it, the
\* name in lower case, and its first word
TypedHints ==
  { DatbaseExpert, toLowerCase(DatabaseExpert),
    SubSeq(DatabaseExpert, 1, 8) }

HandoffInit ==
  /\ experts = SAVED_EXPERTS
  /\ tasks = <<>>
  /\ isQueueProcessing = FALSE
  /\ chattingExpert = NoExpert
  /\ chatMessages = <<>>
  /\ run = <<>>
  /\ now = 0
  /\ nextId = 1
  /\ diffCall = NoDiffCall
  /\ warRoom = WarRoomMounted(SAVED_EXPERTS)

\* the chat modal, the loop and chatWithExpert
HandoffNext ==
  \/ \E id \in SavedIds : HandleChat(id)
  \/ HandleSendMessage
  \/ ProcessQueue
  \/ ChatFirstAnswer
  \/ \E h \in TypedHints, why \in Reasons : ChatConsult(h, why)
  \/ ChatLookup
  \/ ChatSecondAnswer
  \/ ChatSecondFails

HandoffSpec == HandoffInit /\ [][HandoffNext]_vars

\* C19: a handoff that asks for "Datbase Expert" while another agent named
\* "Database Expert" is registered resolves to that agent -- the lookup
\* finds it and the second pass consults it.
TypoResolves ==
  [][(/\ InCallback
      /\ run[1].hint = DatbaseExpert
      /\ \E k \in 1..Len(experts) :
           /\ experts[k].name = DatabaseExpert
           /\ experts[k].id # run[1].expert.id)
     => /\ run' # <<>> /\ run'[1].pc = "second"
        /\ run'[1].target[1].name = DatabaseExpert]_vars

\* ----------------------------------------------- a steady stream of chats
CriticalPending ==
  Some(tasks, LAMBDA t : t.status = PENDING /\ t.priority = CRITICAL)

\* Math.random() and Date.now() of a message of the stream.  The stream's
\* tasks are told apart from the counted submissions and from each other;
\* an identifier is used again once its task has left the queue.  The
\* timestamp of a task is read against the PENDING tasks of its priority
\* only, and a message of the stream is sent while no other CRITICAL task
\* is PENDING.
StreamId ==
  IF Some(tasks, LAMBDA t : t.id = MaxTasks + 1)
  THEN MaxTasks + 2 ELSE MaxTasks + 1

\* handleChat(expert) and then handleSendMessage(text): the user opens the
\* chat of an expert whose modal does not block the input and sends the
\* next message as soon as the message before has been picked up
SendAgain(id) ==
  /\ ~InCallback
  /\ ~CriticalPending
  /\ ~(isQueueProcessing
       /\ Some(tasks, LAMBDA t : t.expertId = id /\ t.priority = CRITICAL))
  /\ chattingExpert' = id
  /\ chatMessages' = << [role |-> "user", expertId |-> id] >>
  /\ experts' = SetQueued(experts, id)
  /\ tasks' = Append(tasks, [id |-> StreamId, expertId |-> id,
                             type |-> "CHAT", priority |-> CRITICAL,
                             status |-> PENDING, timestamp |-> StreamId])
  /\ UNCHANGED <<diffCall, warRoom, isQueueProcessing, run, now, nextId>>

\* a call lasts long enough for the user to send the next message: it
\* returns when that message is in the queue.  The chats of the stream are
\* answered without a consultation.
StreamReturns ==
  /\ CriticalPending
  /\ (ChatFirstAnswer \/ ImproveSucceeds \/ CallFails)

\* background submissions, the stream of chats, the loop and the calls
StarveNext ==
  \/ \E k \in 1..Len(experts) : HandleSelfImprove(k)
  \/ \E id \in ExpertIds : SendAgain(id)
  \/ ProcessQueue
  \/ StreamReturns

\* the loop keeps ticking, every call resolves, the user keeps chatting
StarveSpec ==
  /\ Init /\ [][StarveNext]_vars
  /\ WF_vars(ProcessQueue)
  /\ WF_vars(StreamReturns)
  /\ WF_vars(\E id \in ExpertIds : SendAgain(id))

\* a LOW task is PENDING while a call is in flight or a CRITICAL task waits
Overtaken(id) ==
  /\ \E k \in 1..Len(tasks) :
       tasks[k].id = id /\ tasks[k].status = PENDING /\ tasks[k].priority = LOW
  /\ isQueueProcessing \/ CriticalPending

\* C20: starvation of background work is possible -- in the executions in
\* which the user sends the next chat message during every call, a LOW task
\* that a CRITICAL task or a running call has overtaken is overtaken again
\* at every step and so stays PENDING for ever, while the loop goes on
\* dispatching and every call returns.
Starvation ==
  /\ [][\A id \in 1..MaxTasks : Overtaken(id) => Overtaken(id)']_vars
  /\ []<>isQueueProcessing
  /\ []<>(~isQueueProcessing)

\* a LOW task waits in front of two chat messages of the stream, one in
\* flight and one PENDING, both submitted after it
StarvationWitness ==
  \E k \in Pending, j \in Processing, i \in Pending :
    /\ tasks[k].priority = LOW
    /\ k < j /\ j < i
    /\ tasks[j].priority = CRITICAL /\ tasks[j].id > MaxTasks
    /\ tasks[i].priority = CRITICAL /\ tasks[i].id > MaxTasks
    /\ tasks[i].id < tasks[j].id

\* ------------------------------------------------- the diff view (computeDiff)
MaxTextLen == 3

\* the characters of an expertise text: two letters and the line feed
TextChars == {"a", "b", "\n"}

Texts == UNION {[1..n -> TextChars] : n \in 0..MaxTextLen}

\* String.prototype.split('\n')
RECURSIVE split(_)
split(text) ==
  IF \A p \in 1..Len(text) : text[p] # "\n"
  THEN <<text>>
  ELSE LET p == CHOOSE q \in 1..Len(text) :
                  /\ text[q] = "\n"
                  /\ \A o \in 1..(q - 1) : text[o] # "\n"
       IN  <<SubSeq(text, 1, p - 1)>> \o split(SubSeq(text, p + 1, Len(text)))

\* text ? text.split('\n') : []
Lines(text) == IF text # <<>> THEN split(text) ELSE <<>>

\* what indexing an array past its end yields
Undefined == <<"undefined">>

\* lines[n], n counted from 0
At(lines, n) == IF n < Len(lines) THEN lines[n + 1] ELSE Undefined

\* !line: undefined and the empty string are falsy
Falsy(line) == line = Undefined \/ line = <<>>

\* The registry App reads from localStorage when the earlier session has
\* improved its one expert once: version 2, the text before the improvement
\* kept as version 1.
DiffRegistries ==
  { << [id |-> "e1", name |-> <<"D", "b">>, status |-> ACTIVE, learnings |-> 1,
        lastUpdated |-> 0, expertise |-> newText, version |-> 2,
        history |-> << [version |-> 1, content |-> oldText, timestamp |-> 0,
                        reason |-> ImproveReason] >>,
        collaboratingWith |-> UndefinedName,
        collaborationTopic |-> UndefinedTopic] >> :
    oldText \in Texts, newText \in Texts }

DiffInit ==
  /\ experts \in DiffRegistries
  /\ tasks = <<>>
  /\ isQueueProcessing = FALSE
  /\ chattingExpert = NoExpert
  /\ chatMessages = <<>>
  /\ run = <<>>
  /\ now = 0
  /\ nextId = 1
  /\ diffCall = NoDiffCall
  /\ warRoom = WarRoomMounted(experts)

\* fullHistory.find(h => h.version === version)?.content || ""
EntryContent(expert, version) ==
  IF version = expert.version THEN expert.expertise
  ELSE LET found == Filter(expert.history, LAMBDA h : h.version = version)
       IN  IF found = <<>> THEN <<>> ELSE found[Len(found)].content

\* renderDiff of the modal showing experts[k] at selectedVersion: the early
\* return for the initial version, else the call of computeDiff up to the
\* head of its loop
RenderDiff(k, selectedVersion) ==
  /\ diffCall.pc # "loop"
  /\ selectedVersion \in fullHistory(experts[k])
  /\ ~(selectedVersion - 1 \notin fullHistory(experts[k]) /\ selectedVersion = 1)
  /\ LET previousContent == EntryContent(experts[k], selectedVersion - 1)
         currentViewedContent == EntryContent(experts[k], selectedVersion)
     IN  diffCall' = [pc |-> "loop",
                      oldText |-> previousContent,
                      newText |-> currentViewedContent,
                      oldLines |-> Lines(previousContent),
                      newLines |-> Lines(currentViewedContent),
                      diff |-> <<>>, i |-> 0, j |-> 0]
  /\ UNCHANGED <<experts, tasks, isQueueProcessing, chattingExpert,
                 chatMessages, run, now, nextId, warRoom>>

\* one test of the loop condition and one pass through the loop body; the
\* same branch advances the old cursor only
DiffStep_KeepJ ==
  /\ diffCall.pc = "loop"
  /\ LET d == diffCall  i == d.i  j == d.j IN
     diffCall' =
       IF ~(i < Len(d.oldLines) \/ j < Len(d.newLines))
       THEN [d EXCEPT !.pc = "done"]
       ELSE IF /\ i < Len(d.oldLines) /\ j < Len(d.newLines)
               /\ At(d.oldLines, i) = At(d.newLines, j)
       THEN [d EXCEPT !.diff = Append(@, [type |-> "same",
                                          content |-> At(d.oldLines, i)]),
                      !.i = i + 1]
       ELSE IF /\ j < Len(d.newLines)
               /\ \/ Falsy(At(d.oldLines, i))
                  \/ At(d.newLines, j) # At(d.oldLines, i + 1)
       THEN [d EXCEPT !.diff = Append(@, [type |-> "added",
                                          content |-> At(d.newLines, j)]),
                      !.j = j + 1]
       ELSE IF i < Len(d.oldLines)
       THEN [d EXCEPT !.diff = Append(@, [type |-> "removed",
                                          content |-> At(d.oldLines, i)]),
                      !.i = i + 1]
       ELSE d
  /\ UNCHANGED <<experts, tasks, isQueueProcessing, chattingExpert,
                 chatMessages, run, now, nextId, warRoom>>

\* one test of the loop condition and one pass through the loop body of
\* computeDiff; the return when the condition fails
DiffStep ==
  /\ diffCall.pc = "loop"
  /\ LET d == diffCall  i == d.i  j == d.j IN
     diffCall' =
       IF ~(i < Len(d.oldLines) \/ j < Len(d.newLines))
       THEN [d EXCEPT !.pc = "done"]
       ELSE IF /\ i < Len(d.oldLines) /\ j < Len(d.newLines)
               /\ At(d.oldLines, i) = At(d.newLines, j)
       THEN [d EXCEPT !.diff = Append(@, [type |-> "same",
                                          content |-> At(d.oldLines, i)]),
                      !.i = i + 1, !.j = j + 1]
       ELSE IF /\ j < Len(d.newLines)
               /\ \/ Falsy(At(d.oldLines, i))
                  \/ At(d.newLines, j) # At(d.oldLines, i + 1)
       THEN [d EXCEPT !.diff = Append(@, [type |-> "added",
                                          content |-> At(d.newLines, j)]),
                      !.j = j + 1]
       ELSE IF i < Len(d.oldLines)
       THEN [d EXCEPT !.diff = Append(@, [type |-> "removed",
                                          content |-> At(d.oldLines, i)]),
                      !.i = i + 1]
       ELSE d
  /\ UNCHANGED <<experts, tasks, isQueueProcessing, chattingExpert,
                 chatMessages, run, now, nextId, warRoom>>

DiffNext ==
  \/ \E k \in 1..Len(experts), v \in 1..2 : RenderDiff(k, v)
  \/ DiffStep

\* computeDiff is synchronous: once called it runs on
DiffSpec == DiffInit /\ [][DiffNext]_vars /\ WF_vars(DiffStep)

\* the contents of the entries of the given types, in order
Contents(diff, types) ==
  LET kept == Filter(diff, LAMBDA l : l.type \in types)
  IN  [n \in 1..Len(kept) |-> kept[n].content]

\* the lines of a text: the pieces between its line feeds, none for the
\* empty text
TextLines(text) ==
  IF text = <<>> THEN <<>>
  ELSE LET breaks == <<0>> \o SelectSeq([p \in 1..Len(text) |-> IF text[p] = "\n" THEN p ELSE 0],
                               LAMBDA p : p # 0) \o <<Len(text) + 1>>
       IN  [n \in 1..(Len(breaks) - 1) |->
              SubSeq(text, breaks[n] + 1, breaks[n + 1] - 1)]

\* C29: computeDiff terminates for every pair of texts, and its output
\* reconstructs both: the same and removed entries are, in order, the lines
\* of the old text, the same and added entries the lines of the new text
\* (the empty text has no lines); the diff of a text with itself has only
\* same entries.
DiffReconstructs ==
  /\ (diffCall.pc = "loop") ~> (diffCall.pc = "done")
  /\ [](diffCall.pc = "done"
        => /\ Contents(diffCall.diff, {"same", "removed"})
                = TextLines(diffCall.oldText)
           /\ Contents(diffCall.diff, {"same", "added"})
                = TextLines(diffCall.newText)
           /\ diffCall.oldText = diffCall.newText
              => \A n \in 1..Len(diffCall.diff) : diffCall.diff[n].type = "same")

\* a finished diff that has an entry of each type, an empty line among them
DiffReconstructsWitness ==
  /\ diffCall.pc = "done"
  /\ {diffCall.diff[n].type : n \in 1..Len(diffCall.diff)}
       = {"same", "added", "removed"}
  /\ \E n \in 1..Len(diffCall.diff) : diffCall.diff[n].content = <<>>

\* ------------------------------------------------ the war room (WarRoomModal)
maxTurns == 15

\* what the user types as the topic: nothing, a blank, a question
Topics == { <<>>, <<" ">>, <<"q">> }

\* String.prototype.trim
RECURSIVE trim(_)
trim(text) ==
  IF text = <<>> THEN text
  ELSE IF Head(text) = " " THEN trim(Tail(text))
  ELSE IF text[Len(text)] = " " THEN trim(SubSeq(text, 1, Len(text) - 1))
  ELSE text

\* the state a runTurn closes over when the debate effect creates it
Closure(w) ==
  [isDebating |-> w.isDebating, isConsensusReached |-> w.isConsensusReached,
   turnCount |-> w.turnCount, activeExpertIds |-> w.activeExpertIds,
   isForcingConsensus |-> w.isForcingConsensus]

\* The debate effect after a render in which one of its dependencies has
\* changed: the cleanup clears the timeout of the previous run, and a new
\* one is set for a new runTurn while the room is debating.
DebateEffect(w) ==
  [w EXCEPT !.timeout = IF w.isDebating THEN <<Closure(w)>> ELSE <<>>]

WarFrame ==
  UNCHANGED <<experts, tasks, isQueueProcessing, chattingExpert, chatMessages,
              run, now, nextId, diffCall>>

\* the topic input, shown while nothing is recorded and the room is at rest
SetTopic(text) ==
  /\ warRoom.messages = <<>> /\ ~warRoom.isDebating
  /\ text # warRoom.topic
  /\ warRoom' = DebateEffect([warRoom EXCEPT !.topic = text])
  /\ WarFrame

\* Engage Swarm on the first screen and Resume in the footer
HandleStart ==
  /\ ~warRoom.isDebating
  /\ warRoom.activeExpertIds # {}
  /\ warRoom.messages = <<>> \/ ~warRoom.isConsensusReached
  /\ trim(warRoom.topic) # <<>>
  /\ warRoom' = DebateEffect([warRoom EXCEPT !.messages = <<>>,
                                             !.isConsensusReached = FALSE,
                                             !.turnCount = 0,
                                             !.isDebating = TRUE,
                                             !.isForcingConsensus = FALSE])
  /\ WarFrame

\* Pause in the footer
HandleStop ==
  /\ warRoom.messages # <<>> /\ ~warRoom.isConsensusReached
  /\ warRoom.isDebating
  /\ warRoom' = DebateEffect([warRoom EXCEPT !.isDebating = FALSE])
  /\ WarFrame

\* Conclude in the footer
HandleForceConsensus ==
  /\ warRoom.messages # <<>> /\ ~warRoom.isConsensusReached
  /\ warRoom.isDebating /\ ~warRoom.isForcingConsensus
  /\ warRoom.turnCount > 2
  /\ warRoom' = DebateEffect([warRoom EXCEPT !.isForcingConsensus = TRUE])
  /\ WarFrame

\* a click on an expert of the side bar
ToggleExpert(id) ==
  /\ \E k \in 1..Len(WarRoomExperts(experts)) : WarRoomExperts(experts)[k].id = id
  /\ warRoom' = DebateEffect([warRoom EXCEPT !.activeExpertIds =
                    IF id \in @ THEN @ \ {id} ELSE @ \cup {id}])
  /\ WarFrame

\* App renders again and passes a new array as the experts prop: the mount
\* effect makes every expert active again and the debate effect runs again
ExpertsPropRenewed ==
  /\ warRoom' = DebateEffect([warRoom EXCEPT !.activeExpertIds =
                    WarRoomMounted(experts).activeExpertIds])
  /\ WarFrame

\* what a runTurn has done when it reaches its await or returns before it;
\* this one does not test isFetchingRef
RunTurn_NoRef ==
  /\ warRoom.timeout # <<>>
  /\ LET c == warRoom.timeout[1]
         fired == [warRoom EXCEPT !.timeout = <<>>]
         activeExperts == Filter(WarRoomExperts(experts),
                                 LAMBDA e : e.id \in c.activeExpertIds)
         shouldForceConsensus == c.isForcingConsensus \/ c.turnCount >= maxTurns
         request == [isDebating |-> c.isDebating,
                     forceConsensus |-> shouldForceConsensus,
                     recorded |-> warRoom.turnCount]
     IN  warRoom' =
           IF ~c.isDebating \/ c.isConsensusReached \/ c.turnCount >= maxTurns + 5
           THEN DebateEffect([fired EXCEPT !.isDebating = FALSE,
                                           !.isForcingConsensus = FALSE])
           ELSE IF activeExperts = <<>> THEN fired
           ELSE IF shouldForceConsensus /\ ~c.isForcingConsensus
           THEN DebateEffect([fired EXCEPT !.isFetching = TRUE,
                                           !.isForcingConsensus = TRUE,
                                           !.requests = Append(@, request)])
           ELSE [fired EXCEPT !.isFetching = TRUE,
                              !.requests = Append(@, request)]
  /\ WarFrame

\* The timeout fires: runTurn up to its await, or to the return before it.
\* A request records the closure's isDebating, which the code tests after
\* the await, the forceConsensus argument, and the number of turns recorded
\* when it is sent.
RunTurn ==
  /\ warRoom.timeout # <<>>
  /\ LET c == warRoom.timeout[1]
         fired == [warRoom EXCEPT !.timeout = <<>>]
         activeExperts == Filter(WarRoomExperts(experts),
                                 LAMBDA e : e.id \in c.activeExpertIds)
         shouldForceConsensus == c.isForcingConsensus \/ c.turnCount >= maxTurns
         request == [isDebating |-> c.isDebating,
                     forceConsensus |-> shouldForceConsensus,
                     recorded |-> warRoom.turnCount]
     IN  warRoom' =
           IF ~c.isDebating \/ c.isConsensusReached \/ c.turnCount >= maxTurns + 5
           THEN DebateEffect([fired EXCEPT !.isDebating = FALSE,
                                           !.isForcingConsensus = FALSE])
           ELSE IF warRoom.isFetching THEN fired
           ELSE IF activeExperts = <<>> THEN fired
           ELSE IF shouldForceConsensus /\ ~c.isForcingConsensus
           THEN DebateEffect([fired EXCEPT !.isFetching = TRUE,
                                           !.isForcingConsensus = TRUE,
                                           !.requests = Append(@, request)])
           ELSE [fired EXCEPT !.isFetching = TRUE,
                              !.requests = Append(@, request)]
  /\ WarFrame

\* getWarRoomTurn resolves -- it catches its own errors and then answers
\* with isConsensus true -- and runTurn runs on from its await: the test of
\* the closure's isDebating, the new message and the count, the consensus
\* branch, and finally
TurnReturns(isConsensus) ==
  /\ \E n \in 1..Len(warRoom.requests) :
       LET r == warRoom.requests[n]
           left == [warRoom EXCEPT
                      !.requests = SubSeq(@, 1, n - 1) \o SubSeq(@, n + 1, Len(@)),
                      !.isFetching = FALSE]
           recorded == [left EXCEPT !.messages = Append(@, isConsensus),
                                    !.turnCount = @ + 1]
       IN  warRoom' =
             IF ~r.isDebating THEN left
             ELSE IF isConsensus
             THEN DebateEffect([recorded EXCEPT !.isConsensusReached = TRUE,
                                                !.isDebating = FALSE,
                                                !.isForcingConsensus = FALSE])
             ELSE DebateEffect(recorded)
  /\ WarFrame

WarNext ==
  \/ \E text \in Topics : SetTopic(text)
  \/ HandleStart
  \/ HandleStop
  \/ HandleForceConsensus
  \/ \E id \in ExpertIds : ToggleExpert(id)
  \/ ExpertsPropRenewed
  \/ RunTurn
  \/ \E isConsensus \in BOOLEAN : TurnReturns(isConsensus)

\* a timeout that is set fires, and every turn request returns
WarSpec ==
  /\ Init /\ [][WarNext]_vars
  /\ WF_vars(RunTurn)
  /\ WF_vars(\E isConsensus \in BOOLEAN : TurnReturns(isConsensus))

\* C30: a war-room debate is bounded -- after Start at most maxTurns + 5 =
\* 20 turns are recorded, every turn requested once 15 turns are recorded
\* is requested with forced consensus, no two turn requests are in flight
\* at once, and a room that is debating comes to a state where it is not
\* debating or no expert is active.
DebateBounded ==
  /\ [](/\ warRoom.turnCount <= maxTurns + 5
        /\ Len(warRoom.messages) <= maxTurns + 5
        /\ Len(warRoom.requests) <= 1
        /\ \A n \in 1..Len(warRoom.requests) :
             warRoom.requests[n].recorded >= maxTurns
             => warRoom.requests[n].forceConsensus)
  /\ warRoom.isDebating ~> (~warRoom.isDebating \/ warRoom.activeExpertIds = {})

\* the hard stop: twenty turns recorded without consensus, the last ones
\* requested with forced consensus, and the room at rest
DebateBoundedWitness ==
  /\ warRoom.turnCount = maxTurns + 5
  /\ Len(warRoom.messages) = maxTurns + 5
  /\ ~warRoom.isConsensusReached
  /\ ~warRoom.isDebating
  /\ warRoom.timeout = <<>>
====
